---- MODULE Spec2Model ----
(* Model of the Genutra backend (src/index.js): an Express API over a       *)
(* relational store (users, planos), an identity provider, a JWT codec and   *)
(* a text-generation service.  Every handler is one action, except the two   *)
(* handlers that await two dependent store operations whose interleaving     *)
(* with other requests is observable (POST /register, GET /planos/recentes): *)
(* those are two steps with the request held in flight in between.           *)
EXTENDS Integers, Sequences, FiniteSets, TLC

VARIABLES
    authUsers,   \* identity provider: sequence of users, in creation order
    users,       \* table users: sequence of profile rows
    planos,      \* table planos: sequence of plan rows, in insertion order
    now,         \* wall clock, in days
    tokens,      \* the tokens POST /login has issued so far
    completion,  \* the text the text-generation service answers next
    reg,         \* POST /register in flight between its two store writes
    rec,         \* GET /planos/recentes in flight between its two queries
    last,        \* the last request answered: what was asked, what was sent
    seen         \* history: what the listings answered since the last insert

vars == <<authUsers, users, planos, now, tokens, completion, reg, rec, last, seen>>

(***************************************************************************)
(* Bounds of the model.                                                    *)
(***************************************************************************)
MaxUsers == 2
MaxPlanos == 2
MaxTokens == 2
MaxNow == 7
MaxPlanosPag == 3
MaxNowPag == 2
MaxPorDia == 2
MaxPlanosAuthz == 1
MaxPlanosAI == 1
MaxPlanosDash == 4
MaxLen == 5

(***************************************************************************)
(* Program constants.                                                      *)
(***************************************************************************)
JWT_SECRET == "genutra-secret"
TokenDays == 7
DefaultLimit == 5
DefaultOffset == 0
TopCount == 3
SeteDias == 7

None == <<>>
Some(x) == <<x>>

Max2(a, b) == IF a > b THEN a ELSE b
Min2(a, b) == IF a < b THEN a ELSE b

(***************************************************************************)
(* Sequences helpers.                                                      *)
(***************************************************************************)
Range(s) == {s[i] : i \in DOMAIN s}

RECURSIVE Perms(_)
Perms(S) ==
    IF S = {} THEN {<<>>}
    ELSE UNION {{<<x>> \o p : p \in Perms(S \ {x})} : x \in S}

\* Array.prototype.slice(from, to) with 0-based, end-exclusive indices.
Slice(s, from, to) ==
    IF Min2(to, Len(s)) <= from THEN <<>>
    ELSE SubSeq(s, from + 1, Min2(to, Len(s)))

(***************************************************************************)
(* Session Token Codec (jsonwebtoken) and the Authorization header.        *)
(* A header is absent (None) or a string, kept as the words that           *)
(* split(' ') yields; a word is a literal, a structurally valid JWT, a     *)
(* malformed token, or the empty string between two spaces.                *)
(***************************************************************************)
Lit(text) == [kind |-> text, id |-> 0, email |-> "", iat |-> 0, key |-> ""]
EmptyWord == Lit("")
GarbageWord == Lit("garbage")

\* jwt.sign({id, email, name}, key, {expiresIn: '7d'}) at time t
jwtSign(id, email, key, t) ==
    [kind |-> "jwt", id |-> id, email |-> email, iat |-> t, key |-> key]

\* jwt.verify(token, JWT_SECRET) at time t: TRUE iff it does not throw
jwtVerify(token, t) ==
    /\ token.kind = "jwt"
    /\ token.key = JWT_SECRET
    /\ t < token.iat + TokenDays

\* authHeader.split(' ')[1]: None when undefined
HeaderToken(words) == IF Len(words) >= 2 THEN Some(words[2]) ELSE None

\* The middleware: the response it sends itself (status 401), or status 0
\* and the decoded claims when it calls next().
authenticateJWT(hdr, t) ==
    IF hdr = None \/ hdr[1] = <<>>
    THEN [status |-> 401, error |-> "Token nao fornecido.", id |-> 0]
    ELSE LET token == HeaderToken(hdr[1]) IN
         IF token = None \/ token[1] = EmptyWord
         THEN [status |-> 401, error |-> "Token invalido.", id |-> 0]
         ELSE IF jwtVerify(token[1], t)
              THEN [status |-> 0, error |-> "", id |-> token[1].id]
              ELSE [status |-> 401, error |-> "Token invalido.", id |-> 0]

(***************************************************************************)
(* Credential Verifier (bcrypt).                                           *)
(***************************************************************************)
bcryptHash(password) == [alg |-> "bcrypt", of |-> password]
bcryptCompare(password, digest) == digest.of = password

(***************************************************************************)
(* Record Store Gateway (supabase-js).  A store call resolves with data,   *)
(* resolves with an error object, or rejects.                              *)
(***************************************************************************)
StoreOutcomes == {"ok", "error", "throw"}
StoreMessage == "store error"
NotFoundCode == "PGRST116"

\* (mutant) the filter on the owner is missing
PlanosOfAnyone(uid) == planos

\* .eq('user_id', user_id) on table planos: the matching rows in table order
PlanosOf(uid) == SelectSeq(planos, LAMBDA p : p.user_id = uid)

\* .order('data', {ascending: false}): the store fixes the order by date only;
\* rows of equal date come in an order of the store's choosing.
OrderedByDataDesc(rows) ==
    {[i \in 1..Len(rows) |-> rows[p[i]]] : p \in
        {q \in Perms(DOMAIN rows) :
            \A i, j \in DOMAIN rows : i < j => rows[q[i]].data >= rows[q[j]].data}}

\* a select with no .order(): the matching rows in an order of the store's choosing
Unordered(rows) ==
    {[i \in 1..Len(rows) |-> rows[p[i]]] : p \in Perms(DOMAIN rows)}

\* (mutant) the upper end of the range is taken as exclusive
RangeOfExclusive(rows, from, to) == Slice(rows, from, to)

\* .range(from, to), 0-based and inclusive
RangeOf(rows, from, to) == Slice(rows, from, to + 1)

(***************************************************************************)
(* What a request was and how it was answered.                             *)
(***************************************************************************)
Answer(ep, hdr, in) ==
    [ep |-> ep, hdr |-> hdr, in |-> in, at |-> now, status |-> 0, error |-> "",
     code |-> "", uid |-> 0, rows |-> <<>>, total |-> None, body |-> None,
     steps |-> {}, errs |-> {}]

NoAnswer == [Answer("none", None, None) EXCEPT !.at = 0]

NothingSeen == [page0 |-> None, page2 |-> None, planos |-> None]

Reject(a, status, error) == [a EXCEPT !.status = status, !.error = error]

\* An input or an outcome the handler does not get to read is not enumerated.
Read(reads, S) == IF reads THEN S ELSE {CHOOSE x \in S : TRUE}

Authenticated(h) == authenticateJWT(h, now).status = 0

(***************************************************************************)
(* AI Plan Generator: the text is a sequence of characters over            *)
(*   "{"  "}"  ":"  " "   themselves,                                      *)
(*   "k"  a JSON string literal,                                           *)
(*   "x"  any character that is no JSON token (prose).                     *)
(* JSON.parse is the JSON grammar restricted to that alphabet: a value is  *)
(* a string or an object of at most one member (there is no comma).        *)
(***************************************************************************)
Chars == {"{", "}", ":", " ", "k", "x"}

RECURSIVE TextsUpTo(_)
TextsUpTo(n) ==
    IF n = 0 THEN {<<>>}
    ELSE LET shorter == TextsUpTo(n - 1) IN
         shorter \cup {Append(t, c) : t \in {u \in shorter : Len(u) = n - 1}, c \in Chars}

JString == [t |-> "string", m |-> <<>>]
JObject(members) == [t |-> "object", m |-> members]

FirstIndexOf(text, c) ==
    IF \E i \in DOMAIN text : text[i] = c
    THEN CHOOSE i \in DOMAIN text : text[i] = c /\ \A j \in 1..(i - 1) : text[j] # c
    ELSE 0

LastIndexOf(text, c) ==
    IF \E i \in DOMAIN text : text[i] = c
    THEN CHOOSE i \in DOMAIN text : text[i] = c /\ \A j \in (i + 1)..Len(text) : text[j] # c
    ELSE 0

\* content.match(/\{[\s\S]*\}/): the span from the first "{" to the last "}"
\* after it, or None (null) when there is none.
RegexMatch(text) ==
    LET i == FirstIndexOf(text, "{")
        j == LastIndexOf(text, "}")
    IN IF i > 0 /\ j > i THEN Some(SubSeq(text, i, j)) ELSE None

RECURSIVE SkipWs(_)
SkipWs(s) == IF s # <<>> /\ Head(s) = " " THEN SkipWs(Tail(s)) ELSE s

ParseFail == [ok |-> FALSE, val |-> JString, rest |-> <<>>]

RECURSIVE ParseValue(_)
ParseValue(s) ==
    LET s0 == SkipWs(s) IN
    IF s0 = <<>> THEN ParseFail
    ELSE IF Head(s0) = "k" THEN [ok |-> TRUE, val |-> JString, rest |-> Tail(s0)]
    ELSE IF Head(s0) # "{" THEN ParseFail
    ELSE LET s1 == SkipWs(Tail(s0)) IN
         IF s1 = <<>> THEN ParseFail
         ELSE IF Head(s1) = "}"
              THEN [ok |-> TRUE, val |-> JObject(<<>>), rest |-> Tail(s1)]
         ELSE IF Head(s1) # "k" THEN ParseFail
         ELSE LET s2 == SkipWs(Tail(s1)) IN
              IF s2 = <<>> \/ Head(s2) # ":" THEN ParseFail
              ELSE LET v == ParseValue(Tail(s2))
                       s3 == SkipWs(v.rest)
                   IN IF ~v.ok \/ s3 = <<>> \/ Head(s3) # "}" THEN ParseFail
                      ELSE [ok |-> TRUE,
                            val |-> JObject(<<[k |-> "k", v |-> v.val]>>),
                            rest |-> Tail(s3)]

\* JSON.parse(text): Some(value), or None when it throws SyntaxError
JSONparse(text) ==
    LET r == ParseValue(text) IN
    IF r.ok /\ SkipWs(r.rest) = <<>> THEN Some(r.val) ELSE None

\* lines 173-182: [threw, planoJson], planoJson None standing for null
ExtractPlano(text) ==
    LET match == RegexMatch(text) IN
    IF match = None THEN [threw |-> FALSE, planoJson |-> None]
    ELSE LET parsed == JSONparse(match[1]) IN
         IF parsed = None THEN [threw |-> TRUE, planoJson |-> None]
         ELSE [threw |-> FALSE, planoJson |-> parsed]

\* !planoJson: null is falsy, every object is truthy
Falsy(planoJson) == planoJson = None

(***************************************************************************)
(* POST /gerar-plano                                                       *)
(***************************************************************************)
NewPlano(b, planoJson, userId) ==
    [id |-> Len(planos) + 1, paciente |-> b.nome, objetivo |-> b.objetivo,
     data |-> now, plano |-> planoJson, user_id |-> userId]

GerarPlanoAnswer(h, b, oAI, oIns) ==
    LET a == Answer("gerar-plano", h, [nome |-> b.nome, objetivo |-> b.objetivo,
                                        text |-> completion])
        auth == authenticateJWT(h, now)
        x == ExtractPlano(completion)
        row == NewPlano(b, x.planoJson[1], auth.id)
    IN IF auth.status # 0 THEN Reject(a, auth.status, auth.error)
       ELSE LET r == [a EXCEPT !.uid = auth.id, !.steps = {"handler"}] IN
       IF b.nome = "" \/ b.objetivo = ""
       THEN Reject(r, 400, "Dados de anamnese incompletos.")
       ELSE LET r1 == [r EXCEPT !.steps = @ \cup {"openai"}] IN
       IF oAI = "throw" THEN Reject(r1, 500, "Erro ao gerar plano com IA.")
       ELSE IF x.threw
       THEN Reject(r1, 400, "Erro ao interpretar resposta da IA. Tente novamente.")
       ELSE IF Falsy(x.planoJson)
       THEN Reject(r1, 400, "A IA nao retornou um JSON valido.")
       ELSE LET r2 == [r1 EXCEPT !.steps = @ \cup {"planos.insert"}] IN
       IF oIns = "throw" THEN Reject(r2, 500, "Erro ao gerar plano com IA.")
       ELSE IF oIns = "error"
       THEN [Reject(r2, 400, StoreMessage) EXCEPT !.errs = {"planos.insert"}]
       ELSE [r2 EXCEPT !.status = 200, !.rows = <<row>>]

GerarPlano(hdrs, bodies, texts, maxPlanos) ==
    \E h \in hdrs :
    \E b \in Read(Authenticated(h), bodies) :
    \E oAI \in Read(Authenticated(h) /\ b.nome # "" /\ b.objetivo # "", {"ok", "throw"}) :
    \E oIns \in Read("planos.insert" \in GerarPlanoAnswer(h, b, oAI, "ok").steps,
                     StoreOutcomes) :
    \E next \in Read("openai" \in GerarPlanoAnswer(h, b, oAI, "ok").steps, texts) :
        \E r \in {GerarPlanoAnswer(h, b, oAI, oIns)} :
        /\ r.status = 200 => Len(planos) < maxPlanos
        /\ last' = r
        /\ planos' = IF r.status = 200 THEN Append(planos, r.rows[1]) ELSE planos
        /\ completion' = IF "openai" \in r.steps THEN next ELSE completion
        /\ UNCHANGED <<authUsers, users, now, tokens, reg, rec>>

(***************************************************************************)
(* GET /planos                                                             *)
(***************************************************************************)
PlanosAnswer(h, o, ord) ==
    LET a == Answer("planos", h, None)
        auth == authenticateJWT(h, now)
    IN IF auth.status # 0 THEN Reject(a, auth.status, auth.error)
       ELSE LET r == [a EXCEPT !.uid = auth.id, !.steps = {"handler", "planos.select"}] IN
       IF o = "throw" THEN Reject(r, 500, "Erro ao buscar planos.")
       ELSE IF o = "error"
       THEN [Reject(r, 400, StoreMessage) EXCEPT !.errs = {"planos.select"}]
       ELSE [r EXCEPT !.status = 200, !.rows = ord]

\* the rows the query of lines 212, 322-323 may return for the caller of header h
ListingsFor(h) == OrderedByDataDesc(PlanosOf(authenticateJWT(h, now).id))

Planos(hdrs) ==
    \E h \in hdrs :
    \E o \in Read(Authenticated(h), StoreOutcomes) :
    \E ord \in Read(o = "ok", ListingsFor(h)) :
            /\ last' = PlanosAnswer(h, o, ord)
            /\ UNCHANGED <<authUsers, users, planos, now, tokens, completion, reg, rec>>

(***************************************************************************)
(* GET /plano/:id                                                          *)
(***************************************************************************)
PlanoAnswer(h, plano_id, o) ==
    LET a == Answer("plano", h, [id |-> plano_id])
        auth == authenticateJWT(h, now)
        found == SelectSeq(planos, LAMBDA p : p.id = plano_id /\ p.user_id = auth.id)
    IN IF auth.status # 0 THEN Reject(a, auth.status, auth.error)
       ELSE LET r == [a EXCEPT !.uid = auth.id, !.steps = {"handler", "planos.single"}] IN
       IF o = "throw" THEN Reject(r, 500, "Erro ao buscar plano.")
       ELSE IF o = "error"
       THEN [Reject(r, 400, StoreMessage) EXCEPT !.errs = {"planos.single"}]
       ELSE IF Len(found) # 1
       THEN [Reject(r, 404, "Plano nao encontrado.")
                EXCEPT !.errs = {"planos.single"}, !.code = NotFoundCode]
       ELSE [r EXCEPT !.status = 200, !.rows = found]

Plano(hdrs, ids) ==
    \E h \in hdrs :
    \E plano_id \in Read(Authenticated(h), ids) :
    \E o \in Read(Authenticated(h), StoreOutcomes) :
        /\ last' = PlanoAnswer(h, plano_id, o)
        /\ UNCHANGED <<authUsers, users, planos, now, tokens, completion, reg, rec>>

(***************************************************************************)
(* Metrics Aggregator (GET /dashboard).  A JavaScript object used as a     *)
(* mapping is the sequence of its entries in Object.entries order: keys    *)
(* that are canonical array indices first, ascending, then the other       *)
(* string keys in the order they were first set.                           *)
(***************************************************************************)
IndexKeys == <<"0", "1", "2", "3">>

\* the array index a property key denotes, or -1 when it is no array index
ArrayIndex(key) ==
    IF \E i \in DOMAIN IndexKeys : IndexKeys[i] = key
    THEN (CHOOSE i \in DOMAIN IndexKeys : IndexKeys[i] = key) - 1
    ELSE -1

HasKey(acc, key) == \E i \in DOMAIN acc : acc[i].key = key

\* where a new key goes among the entries of acc
InsertAt(acc, key) ==
    IF ArrayIndex(key) < 0 THEN Len(acc) + 1
    ELSE 1 + Cardinality({i \in DOMAIN acc :
                 ArrayIndex(acc[i].key) >= 0 /\ ArrayIndex(acc[i].key) < ArrayIndex(key)})

\* acc[key] = (acc[key] || 0) + 1
Increment(acc, key) ==
    IF HasKey(acc, key)
    THEN [i \in DOMAIN acc |->
            IF acc[i].key = key THEN [acc[i] EXCEPT !.count = @ + 1] ELSE acc[i]]
    ELSE LET at == InsertAt(acc, key) IN
         SubSeq(acc, 1, at - 1) \o <<[key |-> key, count |-> 1]>>
            \o SubSeq(acc, at, Len(acc))

\* planos.reduce((acc, p) => { acc[p.objetivo] = ...; return acc }, {})
RECURSIVE PorObjetivoFrom(_, _)
PorObjetivoFrom(acc, rows) ==
    IF rows = <<>> THEN acc
    ELSE PorObjetivoFrom(Increment(acc, Head(rows).objetivo), Tail(rows))

planosPorObjetivo(rows) == PorObjetivoFrom(<<>>, rows)

\* p.data?.slice(0, 7): the yyyy-mm of a date, months numbered from day 0
Mes(data) == data \div 30

\* month keys ("yyyy-mm") are no array indices: they keep insertion order
RECURSIVE PorMesFrom(_, _)
PorMesFrom(acc, rows) ==
    IF rows = <<>> THEN acc
    ELSE LET mes == Mes(Head(rows).data) IN
         PorMesFrom(
            IF HasKey(acc, mes)
            THEN [i \in DOMAIN acc |->
                    IF acc[i].key = mes THEN [acc[i] EXCEPT !.count = @ + 1] ELSE acc[i]]
            ELSE Append(acc, [key |-> mes, count |-> 1]),
            Tail(rows))

planosPorMes(rows) == PorMesFrom(<<>>, rows)

\* planos.reduce((a, b) => (a.data > b.data ? a : b))
RECURSIVE UltimoFrom(_, _)
UltimoFrom(a, rows) ==
    IF rows = <<>> THEN a
    ELSE UltimoFrom(IF a.data > Head(rows).data THEN a ELSE Head(rows), Tail(rows))

ultimoPlano(rows) == UltimoFrom(Head(rows), Tail(rows))

\* Array.prototype.sort((a, b) => b[1] - a[1]): stable, descending by count
RECURSIVE SortByCountDesc(_)
SortByCountDesc(entries) ==
    IF entries = <<>> THEN <<>>
    ELSE LET e == entries[Len(entries)]
             sorted == SortByCountDesc(SubSeq(entries, 1, Len(entries) - 1))
             \* e goes after every entry whose count is at least its own
             k == Cardinality({i \in DOMAIN sorted : sorted[i].count >= e.count})
         IN SubSeq(sorted, 1, k) \o <<e>> \o SubSeq(sorted, k + 1, Len(sorted))

\* (mutant) the entries are not sorted
topObjetivosUnsorted(rows) ==
    LET top == Slice(planosPorObjetivo(rows), 0, TopCount) IN
    [i \in DOMAIN top |-> [objetivo |-> top[i].key, count |-> top[i].count]]

\* Object.entries(...).sort(...).slice(0, 3).map(([objetivo, count]) => ...)
topObjetivos(rows) ==
    LET top == Slice(SortByCountDesc(planosPorObjetivo(rows)), 0, TopCount) IN
    [i \in DOMAIN top |-> [objetivo |-> top[i].key, count |-> top[i].count]]

ZeroMetrics ==
    [totalPlanos |-> 0, planosPorMes |-> <<>>, totalPacientes |-> 0,
     planosPorObjetivo |-> <<>>, ultimoPlano |-> None, planosUltimos7Dias |-> 0,
     topObjetivos |-> <<>>]

Metrics(rows) ==
    LET u == ultimoPlano(rows) IN
    [totalPlanos |-> Len(rows),
     planosPorMes |-> planosPorMes(rows),
     totalPacientes |-> Cardinality({rows[i].paciente : i \in DOMAIN rows}),
     planosPorObjetivo |-> planosPorObjetivo(rows),
     ultimoPlano |-> Some([data |-> u.data, paciente |-> u.paciente,
                           objetivo |-> u.objetivo]),
     planosUltimos7Dias |->
        Cardinality({i \in DOMAIN rows : rows[i].data >= now - SeteDias}),
     topObjetivos |-> topObjetivos(rows)]

\* (mutant) the guard on the empty list is missing: reduce() of an empty
\* array with no initial value throws, which the handler answers with 500
DashboardAnswerUnguarded(h, o, rows) ==
    LET a == Answer("dashboard", h, [outcome |-> o])
        auth == authenticateJWT(h, now)
    IN IF auth.status # 0 THEN Reject(a, auth.status, auth.error)
       ELSE LET r == [a EXCEPT !.uid = auth.id, !.steps = {"handler", "planos.select"}] IN
       IF o = "throw" THEN Reject(r, 500, "Erro ao buscar metricas.")
       ELSE IF o = "error"
       THEN [Reject(r, 400, StoreMessage) EXCEPT !.errs = {"planos.select"}]
       ELSE IF o = "null" \/ Len(rows) = 0
       THEN [Reject(r, 500, "Erro ao buscar metricas.")
                EXCEPT !.steps = @ \cup {"reduce"}]
       ELSE [r EXCEPT !.status = 200, !.rows = rows, !.body = Some(Metrics(rows)),
                      !.steps = @ \cup {"reduce", "Date", "sort"}]

\* o = "null": the select resolves with neither an error nor data
DashboardAnswer(h, o, rows) ==
    LET a == Answer("dashboard", h, [outcome |-> o])
        auth == authenticateJWT(h, now)
    IN IF auth.status # 0 THEN Reject(a, auth.status, auth.error)
       ELSE LET r == [a EXCEPT !.uid = auth.id, !.steps = {"handler", "planos.select"}] IN
       IF o = "throw" THEN Reject(r, 500, "Erro ao buscar metricas.")
       ELSE IF o = "error"
       THEN [Reject(r, 400, StoreMessage) EXCEPT !.errs = {"planos.select"}]
       ELSE IF o = "null" \/ Len(rows) = 0
       THEN [r EXCEPT !.status = 200, !.body = Some(ZeroMetrics)]
       ELSE [r EXCEPT !.status = 200, !.rows = rows, !.body = Some(Metrics(rows)),
                      !.steps = @ \cup {"reduce", "Date", "sort"}]

Dashboard(hdrs) ==
    \E h \in hdrs :
    \E o \in Read(Authenticated(h), StoreOutcomes \cup {"null"}) :
        \* the select has no .order(); every order of the rows is a table order
        LET rows == PlanosOf(authenticateJWT(h, now).id) IN
            /\ last' = DashboardAnswer(h, o, rows)
            /\ UNCHANGED <<authUsers, users, planos, now, tokens, completion, reg, rec>>

(***************************************************************************)
(* GET /planos/recentes: the page query, then the count query.             *)
(***************************************************************************)
\* parseInt(q) || dflt, q None when the parameter is absent or no number
ParseIntOr(q, dflt) == IF q = None \/ q[1] = 0 THEN dflt ELSE q[1]

RecentesPageAnswer(h, qlimit, qoffset, o, ord) ==
    LET limit == ParseIntOr(qlimit, DefaultLimit)
        offset == ParseIntOr(qoffset, DefaultOffset)
        auth == authenticateJWT(h, now)
        a == Answer("recentes", h,
                    [limit |-> limit, offset |-> offset,
                     atPage |-> Len(PlanosOf(auth.id))])
    IN IF auth.status # 0 THEN Reject(a, auth.status, auth.error)
       ELSE LET r == [a EXCEPT !.uid = auth.id, !.steps = {"handler", "planos.range"}] IN
       IF o = "throw" THEN Reject(r, 500, "Erro ao buscar planos recentes.")
       ELSE IF o = "error"
       THEN [Reject(r, 400, StoreMessage) EXCEPT !.errs = {"planos.range"}]
       ELSE [r EXCEPT !.rows = RangeOf(ord, offset, offset + limit - 1)]

\* status 0: the handler goes on to the count query
RecentesPage(hdrs, limits, offsets) ==
    \E h \in hdrs :
    \E qlimit \in Read(Authenticated(h), limits) :
    \E qoffset \in Read(Authenticated(h), offsets) :
    \E o \in Read(Authenticated(h), StoreOutcomes) :
    \E ord \in Read(o = "ok", ListingsFor(h)) :
            \E r \in {RecentesPageAnswer(h, qlimit, qoffset, o, ord)} :
            /\ rec = None
            /\ rec' = IF r.status = 0 THEN Some(r) ELSE None
            /\ last' = IF r.status = 0 THEN last ELSE r
            /\ UNCHANGED <<authUsers, users, planos, now, tokens, completion, reg>>

\* (mutant) the total is the length of the page
RecentesCountOfPage(r, o) ==
    LET r1 == [r EXCEPT !.steps = @ \cup {"planos.count"}] IN
    IF o = "throw" THEN [Reject(r1, 500, "Erro ao buscar planos recentes.")
                            EXCEPT !.rows = <<>>]
    ELSE IF o = "error"
    THEN [r1 EXCEPT !.status = 200, !.errs = {"planos.count"}]
    ELSE [r1 EXCEPT !.status = 200, !.total = Some(Len(r.rows))]

\* const { count: totalCount } = await ...: an error of this query is not read
RecentesCountAnswer(r, o) ==
    LET r1 == [r EXCEPT !.steps = @ \cup {"planos.count"}] IN
    IF o = "throw" THEN [Reject(r1, 500, "Erro ao buscar planos recentes.")
                            EXCEPT !.rows = <<>>]
    ELSE IF o = "error"
    THEN [r1 EXCEPT !.status = 200, !.errs = {"planos.count"}]
    ELSE [r1 EXCEPT !.status = 200, !.total = Some(Len(PlanosOf(r.uid)))]

RecentesCount ==
    \E o \in StoreOutcomes :
        /\ rec # None
        /\ last' = RecentesCountAnswer(rec[1], o)
        /\ rec' = None
        /\ UNCHANGED <<authUsers, users, planos, now, tokens, completion, reg>>

(***************************************************************************)
(* GET /ping                                                               *)
(***************************************************************************)
PingAnswer(o) ==
    LET a == [Answer("ping", None, None) EXCEPT !.steps = {"handler", "users.select"}] IN
    IF o = "throw" THEN Reject(a, 500, "Erro interno do servidor.")
    ELSE IF o = "error"
    THEN [Reject(a, 500, "Falha ao conectar no Supabase.") EXCEPT !.errs = {"users.select"}]
    ELSE [a EXCEPT !.status = 200]

Ping ==
    \E o \in StoreOutcomes :
        /\ last' = PingAnswer(o)
        /\ UNCHANGED <<authUsers, users, planos, now, tokens, completion, reg, rec>>

(***************************************************************************)
(* POST /register: createUser in the identity provider, then the insert    *)
(* of the profile row.                                                     *)
(***************************************************************************)
MissingField(b) ==
    b.name = "" \/ b.email = "" \/ b.password = "" \/ b.cpf_cnpj = "" \/ b.profession = ""

\* the provider refuses a second user of the same email
EmailTaken(email) == \E i \in DOMAIN authUsers : authUsers[i].email = email

RegisterCreateAnswer(b, o) ==
    LET a == [Answer("register", None, b) EXCEPT !.steps = {"handler"}] IN
    IF MissingField(b) THEN Reject(a, 400, "Preencha todos os campos obrigatorios.")
    ELSE LET r == [a EXCEPT !.steps = @ \cup {"auth.createUser"}] IN
    IF o = "throw" THEN Reject(r, 500, "Erro interno do servidor.")
    ELSE IF o = "error" \/ EmailTaken(b.email)
    THEN [Reject(r, 400, StoreMessage) EXCEPT !.errs = {"auth.createUser"}]
    ELSE [r EXCEPT !.uid = Len(authUsers) + 1]

RegisterCreate(bodies, maxUsers) ==
    \E b \in bodies :
    \E o \in Read(~MissingField(b), StoreOutcomes) :
        \E r \in {RegisterCreateAnswer(b, o)} :
        /\ reg = None
        /\ r.status = 0 => Len(authUsers) < maxUsers
        /\ authUsers' = IF r.status = 0
                        THEN Append(authUsers, [id |-> r.uid, email |-> b.email])
                        ELSE authUsers
        /\ reg' = IF r.status = 0 THEN Some(r) ELSE None
        /\ last' = IF r.status = 0 THEN last ELSE r
        /\ UNCHANGED <<users, planos, now, tokens, completion, rec>>

RegisterInsertAnswer(r, o) ==
    LET r1 == [r EXCEPT !.steps = @ \cup {"users.insert"}] IN
    IF o = "throw" THEN Reject(r1, 500, "Erro interno do servidor.")
    ELSE IF o = "error"
    THEN [Reject(r1, 400, StoreMessage) EXCEPT !.errs = {"users.insert"}]
    ELSE [r1 EXCEPT !.status = 200]

ProfileRow(b, uuid) ==
    [name |-> b.name, email |-> b.email, password |-> bcryptHash(b.password),
     uuid |-> uuid]

\* (mutant) a failed insert is compensated by deleting the identity
RegisterInsertCompensating ==
    \E o \in StoreOutcomes :
        /\ reg # None
        /\ \E r \in {RegisterInsertAnswer(reg[1], o)} :
            /\ last' = r
            /\ users' = IF r.status = 200
                        THEN Append(users, ProfileRow(reg[1].in, reg[1].uid))
                        ELSE users
            /\ authUsers' = IF r.status = 200 THEN authUsers
                            ELSE SelectSeq(authUsers, LAMBDA u : u.id # reg[1].uid)
        /\ reg' = None
        /\ UNCHANGED <<planos, now, tokens, completion, rec>>

RegisterInsert ==
    \E o \in StoreOutcomes :
        /\ reg # None
        /\ \E r \in {RegisterInsertAnswer(reg[1], o)} :
            /\ last' = r
            /\ users' = IF r.status = 200
                        THEN Append(users, ProfileRow(reg[1].in, reg[1].uid))
                        ELSE users
        /\ reg' = None
        /\ UNCHANGED <<authUsers, planos, now, tokens, completion, rec>>

(***************************************************************************)
(* POST /login                                                             *)
(***************************************************************************)
\* supabase.auth.admin.listUsers({ email }): the provider pages through its
\* users; its parameters are the page and the page size, so the listing is
\* of all users, in the provider's order.
listUsers(email) == Unordered(authUsers)

\* getAuthUserByEmail: data.users[0], None for null
getAuthUserByEmail(listing, o) ==
    IF o = "error" \/ Len(listing) = 0 THEN None ELSE Some(listing[1])

LoginAnswer(email, password, o1, o2, listing) ==
    LET a == [Answer("login", None, [email |-> email, password |-> password])
                 EXCEPT !.steps = {"handler"}]
        found == SelectSeq(users, LAMBDA u : u.email = email)
        authUser == getAuthUserByEmail(listing, o2)
    IN IF email = "" \/ password = ""
       THEN Reject(a, 400, "Email e senha sao obrigatorios.")
       ELSE LET r == [a EXCEPT !.steps = @ \cup {"users.single"}] IN
       IF o1 = "throw" THEN Reject(r, 500, "Erro interno do servidor.")
       ELSE IF o1 = "error" \/ Len(found) # 1
       THEN [Reject(r, 401, "Usuario nao encontrado.") EXCEPT !.errs = {"users.single"}]
       ELSE LET r1 == [r EXCEPT !.steps = @ \cup {"auth.listUsers"}] IN
       IF o2 = "throw" THEN Reject(r1, 500, "Erro interno do servidor.")
       ELSE IF authUser = None
       THEN [Reject(r1, 401, "Usuario Auth nao encontrado.")
                EXCEPT !.errs = IF o2 = "error" THEN {"auth.listUsers"} ELSE {}]
       ELSE IF ~bcryptCompare(password, found[1].password)
       THEN Reject(r1, 401, "Senha invalida.")
       ELSE [r1 EXCEPT !.status = 200, !.uid = authUser[1].id,
                       !.body = Some(jwtSign(authUser[1].id, found[1].email,
                                             JWT_SECRET, now))]

Login(emails, passwords, maxTokens) ==
    \E email \in emails, password \in passwords :
    \E o1 \in Read(email # "" /\ password # "", StoreOutcomes) :
    \E o2 \in Read("auth.listUsers" \in LoginAnswer(email, password, o1, "ok", <<>>).steps,
                   StoreOutcomes) :
    \E listing \in Read(o2 = "ok", listUsers(email)) :
            \E r \in {LoginAnswer(email, password, o1, o2, listing)} :
            /\ r.status = 200 =>
                    r.body[1] \in tokens \/ Cardinality(tokens) < maxTokens
            /\ last' = r
            /\ tokens' = IF r.status = 200 THEN tokens \cup {r.body[1]} ELSE tokens
            /\ UNCHANGED <<authUsers, users, planos, now, completion, reg, rec>>

(***************************************************************************)
(* Time passes.                                                            *)
(***************************************************************************)
Tick(days, maxNow) ==
    /\ now + days <= maxNow
    /\ now' = now + days
    /\ UNCHANGED <<authUsers, users, planos, tokens, completion, reg, rec, last>>

(***************************************************************************)
(* The requests of the model.                                              *)
(***************************************************************************)
Emails == {"ana@x", "bia@x"}
Senhas == {"s1", "s2"}

RegisterBodies ==
    [name : {"Nutri"}, email : Emails \cup {""}, password : {"s1"},
     cpf_cnpj : {"123"}, profession : {"nutricionista"}]

Anamneses(objetivos) ==
    [nome : {"Ana"}, objetivo : objetivos]
        \cup {[nome |-> "", objetivo |-> "perda de peso"], [nome |-> "Ana", objetivo |-> ""]}

\* a token signed with another key, as a caller without the secret can make
Forged == {jwtSign(1, "ana@x", "other-secret", now)}

\* the headers of a client that follows the API: none, or Bearer <token>
BearerHeaders(toks) == {None} \cup {Some(<<Lit("Bearer"), t>>) : t \in toks}

\* the Authorization headers any caller holding the tokens toks can send
Headers(toks) ==
    BearerHeaders(toks)
        \cup {Some(<<>>), Some(<<Lit("Bearer")>>)}
        \cup {Some(<<t>>) : t \in toks}
        \cup {Some(<<Lit("Bearer"), w>>) : w \in Forged \cup {EmptyWord, GarbageWord}}
        \cup {Some(<<Lit("Basic"), t>>) : t \in toks}

TextoValido == <<"x", "{", "k", ":", "k", "}", "x">>
TextoSemJson == <<"x">>

(***************************************************************************)
(* Spec: identities.  Registration and login from an empty store.          *)
(***************************************************************************)
Init ==
    /\ authUsers = <<>>
    /\ users = <<>>
    /\ planos = <<>>
    /\ now = 0
    /\ tokens = {}
    /\ completion = TextoValido
    /\ reg = None
    /\ rec = None
    /\ last = NoAnswer
    /\ seen = NothingSeen

PostRegister == RegisterCreate(RegisterBodies, MaxUsers) /\ UNCHANGED seen
PostRegisterInsert == RegisterInsert /\ UNCHANGED seen
PostLogin == Login(Emails \cup {""}, Senhas \cup {""}, MaxTokens) /\ UNCHANGED seen
GetPing == Ping /\ UNCHANGED seen
Clock == Tick(TokenDays, MaxNow) /\ UNCHANGED seen

Next ==
    \/ PostRegister
    \/ PostRegisterInsert
    \/ PostLogin
    \/ GetPing
    \/ Clock

Spec == Init /\ [][Next]_vars

(***************************************************************************)
(* SpecPlanos: two registered users, each holding a token of their own,    *)
(* generate and read plans.                                                *)
(***************************************************************************)
Identity(id, email) == [id |-> id, email |-> email]
Profile(id, email) ==
    ProfileRow([name |-> "Nutri", email |-> email, password |-> "s1"], id)

InitPlanos ==
    /\ authUsers = <<Identity(1, "ana@x"), Identity(2, "bia@x")>>
    /\ users = <<Profile(1, "ana@x"), Profile(2, "bia@x")>>
    /\ planos = <<>>
    /\ now = 0
    /\ tokens = {jwtSign(1, "ana@x", JWT_SECRET, 0), jwtSign(2, "bia@x", JWT_SECRET, 0)}
    /\ completion = TextoValido
    /\ reg = None
    /\ rec = None
    /\ last = NoAnswer
    /\ seen = NothingSeen

PostGerarPlano ==
    /\ GerarPlano(BearerHeaders(tokens), Anamneses({"perda de peso"}),
                  {TextoValido}, MaxPlanos)
    /\ UNCHANGED seen
GetPlanos == Planos(BearerHeaders(tokens)) /\ UNCHANGED seen
GetPlano == Plano(BearerHeaders(tokens), 1..MaxPlanos) /\ UNCHANGED seen
GetDashboard == Dashboard(BearerHeaders(tokens)) /\ UNCHANGED seen
GetRecentes ==
    RecentesPage(BearerHeaders(tokens), {None}, {None, Some(1)}) /\ UNCHANGED seen
GetRecentesCount == RecentesCount /\ UNCHANGED seen

NextPlanos ==
    \/ PostGerarPlano
    \/ GetPlanos
    \/ GetPlano
    \/ GetDashboard
    \/ GetRecentes
    \/ GetRecentesCount

SpecPlanos == InitPlanos /\ [][NextPlanos]_vars

(***************************************************************************)
(* Claims checked under Spec.                                              *)
(***************************************************************************)
HasProfile(email) == \E i \in DOMAIN users : users[i].email = email
HasIdentity(email) == \E i \in DOMAIN authUsers : authUsers[i].email = email

\* C3: a successful login returns a token whose id is the id of the identity
\* registered for the email that logged in, and of no other identity.
C3_LoginTokenIsOwnIdentity ==
    (last.ep = "login" /\ last.status = 200) =>
        /\ HasIdentity(last.in.email)
        /\ \A i \in DOMAIN authUsers :
              authUsers[i].email = last.in.email => last.body[1].id = authUsers[i].id

\* the profile insert of the last registration failed
ProfileInsertFailed == last.ep = "register" /\ "users.insert" \in last.errs

\* C9: when the profile insert fails after the identity was created the request
\* is answered 400 and the identity stays, with no profile row; no step of any
\* request removes an identity.
C9_OrphanIdentityStays ==
    /\ [](ProfileInsertFailed =>
            /\ last.status = 400
            /\ HasIdentity(last.in.email)
            /\ ~HasProfile(last.in.email))
    /\ [][\A i \in DOMAIN authUsers :
            i \in DOMAIN authUsers' /\ authUsers'[i] = authUsers[i]]_vars

C9_Witness ==
    /\ ProfileInsertFailed
    /\ last.status = 400
    /\ \E i \in DOMAIN authUsers : ~HasProfile(authUsers[i].email)

(***************************************************************************)
(* Claims checked under SpecPlanos.                                        *)
(***************************************************************************)
\* the id claim of the token of a Bearer header
TokenId(hdr) == hdr[1][2].id

ReadEndpoints == {"planos", "plano", "recentes", "dashboard"}

\* C2: a plan is stored with the id of the token of the request that created
\* it and keeps it; what a read returns or counts for a token are plans of
\* that token's id only.
C2_PlansStayWithTheirOwner ==
    /\ []((last.ep \in ReadEndpoints /\ last.status = 200) =>
            /\ \A i \in DOMAIN last.rows : last.rows[i].user_id = TokenId(last.hdr)
            /\ last.ep = "dashboard" =>
                  last.body[1].totalPlanos =
                      IF last.in.outcome = "null" THEN 0
                      ELSE Cardinality({i \in DOMAIN planos :
                                          planos[i].user_id = TokenId(last.hdr)}))
    /\ [][/\ \A i \in DOMAIN planos : i \in DOMAIN planos' /\ planos'[i] = planos[i]
          /\ Len(planos') > Len(planos) =>
                /\ Len(planos') = Len(planos) + 1
                /\ last'.ep = "gerar-plano"
                /\ planos'[Len(planos')].user_id = TokenId(last'.hdr)]_vars

C2_Witness ==
    /\ last.ep \in ReadEndpoints
    /\ last.status = 200
    /\ last.rows # <<>>
    /\ \E i \in DOMAIN planos : planos[i].user_id # TokenId(last.hdr)

\* C5: every error a store operation returns is answered 400 with the store's
\* message, except the row-not-found of GET /plano/:id, answered 404.
C5_StoreErrorsSurface ==
    last.errs # {} =>
        IF last.ep = "plano" /\ last.code = NotFoundCode
        THEN last.status = 404
        ELSE last.status = 400 /\ last.error = StoreMessage

(***************************************************************************)
(* SpecAuthz: one registered user holding a token issued at day 0; any     *)
(* caller sends any header to the protected endpoints as the weeks pass.   *)
(***************************************************************************)
InitOne ==
    /\ authUsers = <<Identity(1, "ana@x")>>
    /\ users = <<Profile(1, "ana@x")>>
    /\ planos = <<>>
    /\ now = 0
    /\ tokens = {jwtSign(1, "ana@x", JWT_SECRET, 0)}
    /\ completion = TextoValido
    /\ reg = None
    /\ rec = None
    /\ last = NoAnswer
    /\ seen = NothingSeen

UmaAnamnese == {[nome |-> "Ana", objetivo |-> "perda de peso"]}

AnyGerarPlano ==
    /\ GerarPlano(Headers(tokens), UmaAnamnese, {TextoValido}, MaxPlanosAuthz)
    /\ UNCHANGED seen
AnyPlanos == Planos(Headers(tokens)) /\ UNCHANGED seen
AnyPlano == Plano(Headers(tokens), 1..MaxPlanosAuthz) /\ UNCHANGED seen
AnyDashboard == Dashboard(Headers(tokens)) /\ UNCHANGED seen
AnyRecentes == RecentesPage(Headers(tokens), {None}, {None}) /\ UNCHANGED seen

NextAuthz ==
    \/ AnyGerarPlano
    \/ AnyPlanos
    \/ AnyPlano
    \/ AnyDashboard
    \/ AnyRecentes
    \/ GetRecentesCount
    \/ Clock

SpecAuthz == InitOne /\ [][NextAuthz]_vars

Protected == {"gerar-plano", "planos", "plano", "dashboard", "recentes"}

\* Authorization: Bearer <token>
WellFormed(hdr) ==
    /\ hdr # None
    /\ Len(hdr[1]) = 2
    /\ hdr[1][1] = Lit("Bearer")

\* well signed, well formed and not older than 7 days at time t
GoodToken(w, t) == w.kind = "jwt" /\ w.key = JWT_SECRET /\ t - w.iat < TokenDays

\* C4: a protected endpoint asked with no Authorization header, with a
\* malformed one, or with a token badly signed, malformed or expired answers
\* 401 and its handler does not run: no store operation, no generation call.
C4_BadCredentialIsRejected ==
    (/\ last.ep \in Protected
     /\ ~(WellFormed(last.hdr) /\ GoodToken(last.hdr[1][2], last.at))) =>
        last.status = 401 /\ last.steps = {}

(***************************************************************************)
(* SpecAI: the service answers any text of at most MaxLen characters to a  *)
(* complete request of the registered user.                                *)
(***************************************************************************)
InitAI ==
    /\ authUsers = <<Identity(1, "ana@x")>>
    /\ users = <<Profile(1, "ana@x")>>
    /\ planos = <<>>
    /\ now = 0
    /\ tokens = {jwtSign(1, "ana@x", JWT_SECRET, 0)}
    /\ completion \in TextsUpTo(MaxLen)
    /\ reg = None
    /\ rec = None
    /\ last = NoAnswer
    /\ seen = NothingSeen

GerarPlanoFromText ==
    /\ GerarPlano(BearerHeaders(tokens) \ {None}, UmaAnamnese, {completion}, MaxPlanosAI)
    /\ UNCHANGED seen

NextAI == GerarPlanoFromText

SpecAI == InitAI /\ [][NextAI]_vars

\* the three cases of an invalid response: no brace-delimited span, a span
\* that does not parse, a span that parses to a falsy or empty result
NoSpan(text) == RegexMatch(text) = None
SpanFailsToParse(text) == ~NoSpan(text) /\ JSONparse(RegexMatch(text)[1]) = None
EmptyResult(text) ==
    /\ ~NoSpan(text)
    /\ JSONparse(RegexMatch(text)[1]) # None
    /\ JSONparse(RegexMatch(text)[1])[1].m = <<>>

InvalidAIResponse(text) == NoSpan(text) \/ SpanFailsToParse(text) \/ EmptyResult(text)

\* the service answered the last request with a text
Answered == last.ep = "gerar-plano" /\ "openai" \in last.steps
                /\ ~(last.status = 500 /\ "planos.insert" \notin last.steps)

\* C1: a response with no brace-delimited span, or whose span does not parse,
\* or parses to a falsy or empty result, fails the request with the invalid
\* response error (400); no plan is returned and no row is inserted.
C1_InvalidAIResponseIsRejected ==
    (Answered /\ InvalidAIResponse(last.in.text)) =>
        /\ last.status = 400
        /\ last.error \in {"Erro ao interpretar resposta da IA. Tente novamente.",
                           "A IA nao retornou um JSON valido."}
        /\ last.rows = <<>>
        /\ "planos.insert" \notin last.steps
        /\ planos = <<>>

(***************************************************************************)
(* SpecDash: the registered user generates plans of several goals and      *)
(* asks for the dashboard.                                                 *)
(***************************************************************************)
Objetivos == {"emagrecer", "hipertrofia", "1", "2"}

DashGerarPlano ==
    /\ GerarPlano(BearerHeaders(tokens) \ {None}, Anamneses(Objetivos),
                  {TextoValido}, MaxPlanosDash)
    /\ UNCHANGED seen

NextDash ==
    \/ DashGerarPlano
    \/ GetDashboard

SpecDash == InitOne /\ [][NextDash]_vars

\* the dashboard handler of the last request got an answer from the store
DashboardRan ==
    /\ last.ep = "dashboard"
    /\ "handler" \in last.steps
    /\ last.in.outcome \in {"ok", "null"}

NoPlans == last.in.outcome = "null" \/ PlanosOf(last.uid) = <<>>

\* C7: with an empty or absent plan list the dashboard is exactly the zero
\* shape, and no fold, date parsing or sort ran.
C7_EmptyDashboardIsZeroShape ==
    (DashboardRan /\ NoPlans) =>
        /\ last.status = 200
        /\ last.body = Some([totalPlanos |-> 0, planosPorMes |-> <<>>,
                             totalPacientes |-> 0, planosPorObjetivo |-> <<>>,
                             ultimoPlano |-> None, planosUltimos7Dias |-> 0,
                             topObjetivos |-> <<>>])
        /\ last.steps \cap {"reduce", "Date", "sort"} = {}

C7_Witness ==
    /\ DashboardRan
    /\ NoPlans
    /\ last.status = 200
    /\ last.body[1].totalPlanos = 0

\* the goals of a plan list, their counts and first occurrences
GoalsOf(rows) == {rows[i].objetivo : i \in DOMAIN rows}
CountOf(rows, g) == Cardinality({i \in DOMAIN rows : rows[i].objetivo = g})
FirstOf(rows, g) == CHOOSE i \in DOMAIN rows :
    rows[i].objetivo = g /\ \A j \in 1..(i - 1) : rows[j].objetivo # g

\* g comes before h in the claimed order: more plans, or as many and seen first
Before(rows, g, h) ==
    \/ CountOf(rows, g) > CountOf(rows, h)
    \/ CountOf(rows, g) = CountOf(rows, h) /\ FirstOf(rows, g) < FirstOf(rows, h)

Top == last.body[1].topObjetivos
TopGoals == {Top[i].objetivo : i \in DOMAIN Top}

\* topObjetivos of the last answer lists the min(3, distinct goals) goals that
\* come first in the order before(g, h), in that order, each with its count
TopIsFirstBy(before(_, _)) ==
    /\ Len(Top) = Min2(TopCount, Cardinality(GoalsOf(last.rows)))
    /\ \A i \in DOMAIN Top :
        /\ Top[i].objetivo \in GoalsOf(last.rows)
        /\ Top[i].count = CountOf(last.rows, Top[i].objetivo)
        /\ [key |-> Top[i].objetivo, count |-> Top[i].count]
                \in Range(last.body[1].planosPorObjetivo)
    /\ \A i, j \in DOMAIN Top : i < j => before(Top[i].objetivo, Top[j].objetivo)
    /\ \A g \in GoalsOf(last.rows) \ TopGoals :
        \A i \in DOMAIN Top : before(Top[i].objetivo, g)

NonEmptyDashboard == last.ep = "dashboard" /\ last.status = 200 /\ last.rows # <<>>

KeyBefore(rows, g, h) ==
    IF ArrayIndex(g) >= 0
    THEN ArrayIndex(h) < 0 \/ ArrayIndex(g) < ArrayIndex(h)
    ELSE ArrayIndex(h) < 0 /\ FirstOf(rows, g) < FirstOf(rows, h)

BeforeInKeyOrder(rows, g, h) ==
    \/ CountOf(rows, g) > CountOf(rows, h)
    \/ CountOf(rows, g) = CountOf(rows, h) /\ KeyBefore(rows, g, h)

Observe(r) ==
    LET page(offset) == /\ r.ep = "recentes" /\ r.status = 200
                        /\ r.in.limit = 2 /\ r.in.offset = offset
                        /\ r.in.atPage = Len(PlanosOf(r.uid))
    IN IF r.ep = "planos" /\ r.status = 200
       THEN [NothingSeen EXCEPT !.planos = Some(Range(r.rows))]
       ELSE IF page(0) /\ seen.planos # None /\ seen.page0 = None
       THEN [seen EXCEPT !.page0 = Some(r.rows)]
       ELSE IF page(2) /\ seen.page0 # None /\ seen.page2 = None
       THEN [seen EXCEPT !.page2 = Some(r.rows)]
       ELSE NothingSeen

\* at most MaxPorDia plans are made on one day
PagGerarPlano ==
    /\ Cardinality({i \in 1..Len(planos) : planos[i].data = now}) < MaxPorDia
    /\ GerarPlano(BearerHeaders(tokens) \ {None}, UmaAnamnese, {TextoValido}, MaxPlanosPag)
    /\ seen' = Observe(last')
PagPlanos == Planos(BearerHeaders(tokens) \ {None}) /\ seen' = Observe(last')
PagRecentes ==
    /\ RecentesPage(BearerHeaders(tokens) \ {None}, {Some(2)}, {None, Some(2)})
    /\ UNCHANGED seen
PagRecentesCount == RecentesCount /\ seen' = Observe(last')
\* a day on which no plan was made is not told from the next one
PagDay ==
    /\ \E i \in 1..Len(planos) : planos[i].data = now
    /\ Tick(1, MaxNowPag)
    /\ UNCHANGED seen

NextPag ==
    \/ PagGerarPlano
    \/ PagPlanos
    \/ PagRecentes
    \/ PagRecentesCount
    \/ PagDay

SpecPag == InitOne /\ [][NextPag]_vars

\* both pages and the whole listing were answered with no insert in between
AllSeen == seen.page0 # None /\ seen.page2 # None /\ seen.planos # None

InPages == Range(seen.page0[1]) \cup Range(seen.page2[1])

\* the pages hold every record of the listing, none twice
PagesCover ==
    /\ seen.planos[1] \subseteq InPages
    /\ Len(seen.page0[1]) + Len(seen.page2[1]) = Cardinality(InPages)

DistinctDates(rows) == \A p, q \in rows : p # q => p.data # q.data

RecentesAnswered == last.ep = "recentes" /\ last.status = 200 /\ last.total # None

\* C10: the total returned by GET /planos/recentes is at least offset plus the
\* length of the page whenever the page is not empty, and at least the number
\* of the caller's plans when the page was read.
C10_TotalCoversThePage ==
    RecentesAnswered =>
        /\ last.rows # <<>> => last.total[1] >= last.in.offset + Len(last.rows)
        /\ last.total[1] >= last.in.atPage

\* a plan was inserted between the page and the count
C10_Witness ==
    /\ RecentesAnswered
    /\ last.rows # <<>>
    /\ last.total[1] > last.in.atPage


====
